---- MODULE Spec2Model ----
(***************************************************************************)
(* Model of letterboxd_plex_watchlist_sync.py: one run of main(), with the *)
(* Plex account, the Letterboxd list service and the Plex Discover search  *)
(* as the environment.                                                     *)
(*                                                                         *)
(* Strings that the program takes apart (Plex GUIDs, IMDB ids) are         *)
(* sequences of tokens; a token is a maximal piece of text that the        *)
(* program's substring test and splits never cut ("imdb", "://", ">").     *)
(***************************************************************************)
EXTENDS Integers, Sequences, FiniteSets, Bags, TLC

VARIABLES
    env,                      \* os.getenv results for the three settings
    pc,                       \* position of main()
    exitStatus,               \* -1 while running, else the process exit status
    plexWatchlist,            \* the target watchlist held by the Plex account
    current_watchlist_items,  \* main: result of account.watchlist()
    letterboxd_watchlist,     \* main: desired set
    letterboxd_watched,       \* main: watched set
    attempt,                  \* fetch_with_retry: loop variable
    futures,                  \* process_watchlist_items: submitted futures
    yielded,                  \* futures already yielded by as_completed
    movies_to_remove,         \* bucket
    already_present,          \* bucket
    movies_to_add,            \* bucket (movies_to_add_to_letterboxd)
    idx,                      \* sync_watchlist: position in letterboxd_watchlist
    discover_results,         \* sync_watchlist: search result being scanned
    unsynced_movies,          \* sync_watchlist: records that could not be synced
    failure,                  \* history: which call failed, "none" if none
    calls,                    \* history: kinds of remote call issued so far
    removed,                  \* history: items passed to removeFromWatchlist
    searched,                 \* history: positions of records searched for
    added,                    \* history: [rec, cand] per addToWatchlist call
    reported,                 \* history: lines of the unsynced report
    pure_in,                  \* SpecPure: arguments given to the classifier
    pure_out                  \* SpecPure: what the functions returned

vars == << env, pc, exitStatus, plexWatchlist, current_watchlist_items,
           letterboxd_watchlist, letterboxd_watched, attempt, futures, yielded,
           movies_to_remove, already_present, movies_to_add, idx,
           discover_results, unsynced_movies, failure, calls, removed,
           searched, added, reported, pure_in, pure_out >>

pureVars == << pure_in, pure_out >>

(***************************************************************************)
(* Bounds of the model and constants of the program.                       *)
(***************************************************************************)
MaxItems == 2        \* longest target watchlist read from Plex
MaxRecords == 2      \* longest desired list fetched
MaxWatched == 1      \* longest watched list fetched
MaxCandidates == 2   \* most candidates returned by one search
max_retries == 3
max_workers == 4

RECURSIVE SeqsUpTo(_, _)
SeqsUpTo(S, n) ==
    IF n = 0 THEN { << >> }
    ELSE LET shorter == SeqsUpTo(S, n - 1)
         IN  shorter \cup { Append(s, x) : s \in shorter, x \in S }

(***************************************************************************)
(* Data the environment can supply.                                        *)
(***************************************************************************)
guidA == << "<Guid:", "imdb", "://", "tt1", ">" >>
guidB == << "<Guid:", "imdb", "://", "tt2", ">" >>
guidT == << "<Guid:", "tvdb", "://", "123", ">" >>

\* A Plex item (watchlist item or Discover candidate): title and guids.
ItemPool ==
    { [title |-> "A", guids |-> << guidA >>],
      [title |-> "B", guids |-> << guidB, guidA >>],
      [title |-> "T", guids |-> << guidT >>] }

\* What a Discover search can return.  Both candidates carry the title of
\* record B, the first one without carrying its id.
CandidatePool ==
    { [title |-> "B", guids |-> << guidA >>],
      [title |-> "B", guids |-> << guidB, guidA >>] }

\* A Letterboxd record.
RecordPool ==
    { [title |-> "A", imdb_id |-> << "tt1" >>],
      [title |-> "B", imdb_id |-> << "tt2" >>] }

EnvValues == { "unset", "empty", "set" }
VarNames == { "PLEX_TOKEN", "PLEX_URL", "LETTERBOXD_USERNAME" }

(***************************************************************************)
(* get_environment_variables                                               *)
(***************************************************************************)
\* Variant: PLEX_URL, which the run never uses, is left out of the check.
missing_vars_without_url ==
    { v \in { "PLEX_TOKEN", "LETTERBOXD_USERNAME" } : env[v] # "set" }

\* `not var_value`: None and the empty string are both falsy.
missing_vars == { v \in VarNames : env[v] # "set" }

(***************************************************************************)
(* get_imdb_id_from_guid                                                   *)
(***************************************************************************)
\* `sub in s` for a two-token pattern.
Contains2(s, a, b) ==
    \E i \in 1..(Len(s) - 1) : s[i] = a /\ s[i + 1] = b

\* Position of the first separator token in s, 0 if there is none.
Find(s, sep) ==
    IF \E i \in 1..Len(s) : s[i] = sep
    THEN CHOOSE i \in 1..Len(s) :
            s[i] = sep /\ \A j \in 1..(i - 1) : s[j] # sep
    ELSE 0

\* Variant: the separator is not looked for, the whole text is returned.
SplitHeadNoSplit(s, sep) == s

\* s.split(sep)[0]: the text before the first separator, all of s if none.
SplitHead(s, sep) ==
    IF Find(s, sep) = 0 THEN s ELSE SubSeq(s, 1, Find(s, sep) - 1)

\* s.split(sep)[1], for s that holds a separator: the text between the
\* first separator and the next one (or the end).
SplitSecond(s, sep) ==
    SplitHead(SubSeq(s, Find(s, sep) + 1, Len(s)), sep)

None == << "None" >>

\* Variant: any namespace is accepted, the test is only for "://".
get_id_any_namespace(guid) ==
    IF \E i \in 1..Len(guid) : guid[i] = "://"
    THEN SplitHead(SplitSecond(guid, "://"), ">")
    ELSE None

\* str(guid).split('://')[1].split(">")[0]; the result of the first split
\* is taken as a value before the second split is applied to it.
get_imdb_id_from_guid(guid) ==
    IF Contains2(guid, "imdb", "://")
    THEN CHOOSE id \in { SplitHead(second, ">") :
                            second \in { SplitSecond(guid, "://") } } : TRUE
    ELSE None

\* Python truthiness of the return value: None and "" are falsy.
Truthy(imdb_id) == imdb_id # None /\ imdb_id # << >>

(***************************************************************************)
(* process_single_watchlist_item                                           *)
(***************************************************************************)
\* The None returned in place of the item by the "present" outcome.
NoItem == [title |-> "None", guids |-> << >>]

HasId(records, imdb_id) ==
    \E j \in 1..Len(records) : records[j].imdb_id = imdb_id

\* The loop over watchlist_item.guids from position g on.  found_already is
\* never assigned after its initialisation to False, so the guard
\* `if not found_already` always passes.
RECURSIVE ScanGuids(_, _, _, _)
ScanGuids(watchlist_item, lb_watchlist, lb_watched, g) ==
    IF g > Len(watchlist_item.guids)
    THEN [action |-> "add", imdb_id |-> None, item |-> watchlist_item]
    ELSE LET imdb_id == get_imdb_id_from_guid(watchlist_item.guids[g])
         IN  IF ~Truthy(imdb_id)
             THEN ScanGuids(watchlist_item, lb_watchlist, lb_watched, g + 1)
             ELSE IF HasId(lb_watched, imdb_id)
             THEN [action |-> "remove", imdb_id |-> imdb_id,
                   item |-> watchlist_item]
             ELSE IF HasId(lb_watchlist, imdb_id)
             THEN [action |-> "present", imdb_id |-> imdb_id, item |-> NoItem]
             ELSE ScanGuids(watchlist_item, lb_watchlist, lb_watched, g + 1)

\* Variant: the two reference lists are taken in the other order.
process_single_swapped(watchlist_item, lb_watchlist, lb_watched) ==
    ScanGuids(watchlist_item, lb_watched, lb_watchlist, 1)

\* Variant: the final return reports the item as present.
process_single_default_present(watchlist_item, lb_watchlist, lb_watched) ==
    LET r == ScanGuids(watchlist_item, lb_watchlist, lb_watched, 1)
    IN  IF r.action = "add"
        THEN [action |-> "present", imdb_id |-> None, item |-> NoItem]
        ELSE r

process_single_watchlist_item(watchlist_item, lb_watchlist, lb_watched) ==
    ScanGuids(watchlist_item, lb_watchlist, lb_watched, 1)

\* Values of pure_in and pure_out while main runs.
NoInput == [item |-> NoItem, desired |-> << >>, watched |-> << >>]
NoOutput == [stage |-> "none", ids |-> << >>,
             outcome |-> [action |-> "none", imdb_id |-> None,
                          item |-> NoItem]]

(***************************************************************************)
(* Initial state: the process has been started, nothing has run.           *)
(***************************************************************************)
Init ==
    /\ env \in [VarNames -> EnvValues]
    /\ pc = "start"
    /\ exitStatus = -1
    /\ plexWatchlist \in SeqsUpTo(ItemPool, MaxItems)
    /\ current_watchlist_items = << >>
    /\ letterboxd_watchlist = << >>
    /\ letterboxd_watched = << >>
    /\ attempt = 0
    /\ futures = << >>
    /\ yielded = { }
    /\ movies_to_remove = << >>
    /\ already_present = << >>
    /\ movies_to_add = << >>
    /\ idx = 1
    /\ discover_results = << >>
    /\ unsynced_movies = << >>
    /\ failure = "none"
    /\ calls = { }
    /\ removed = << >>
    /\ searched = << >>
    /\ added = << >>
    /\ reported = << >>
    /\ pure_in = NoInput
    /\ pure_out = NoOutput

dataVars == << current_watchlist_items, letterboxd_watchlist,
               letterboxd_watched >>
poolVars == << futures, yielded, movies_to_remove, already_present,
               movies_to_add >>
syncVars == << idx, discover_results, unsynced_movies >>
histVars == << removed, searched, added, reported >>

\* sys.exit(1), or an exception that nothing catches: the interpreter ends
\* the process with status 1.
Abort(why) ==
    /\ pc' = "exit"
    /\ exitStatus' = 1
    /\ failure' = why

(***************************************************************************)
(* main, up to the classification                                          *)
(***************************************************************************)
GetEnvironmentVariables ==
    /\ pc = "start"
    /\ IF missing_vars # { }
       THEN Abort("config")
       ELSE /\ pc' = "connect"
            /\ UNCHANGED << exitStatus, failure >>
    /\ UNCHANGED << pureVars, env, plexWatchlist, attempt, dataVars, poolVars, syncVars,
                    calls, histVars >>

\* account = MyPlexAccount(token=plex_token)
ConnectAccount ==
    /\ pc = "connect"
    /\ calls' = calls \cup { "connect" }
    /\ \E ok \in BOOLEAN :
         IF ok
         THEN /\ pc' = "watchlist"
              /\ UNCHANGED << exitStatus, failure >>
         ELSE Abort("connect")
    /\ UNCHANGED << pureVars, env, plexWatchlist, attempt, dataVars, poolVars, syncVars,
                    histVars >>

\* current_watchlist_items = account.watchlist()
GetCurrentWatchlist ==
    /\ pc = "watchlist"
    /\ calls' = calls \cup { "watchlist" }
    /\ \E ok \in BOOLEAN :
         IF ok
         THEN /\ current_watchlist_items' = plexWatchlist
              /\ pc' = "fetch_watchlist"
              /\ UNCHANGED << exitStatus, failure >>
         ELSE /\ Abort("watchlist")
              /\ UNCHANGED current_watchlist_items
    /\ UNCHANGED << pureVars, env, plexWatchlist, attempt, letterboxd_watchlist,
                    letterboxd_watched, poolVars, syncVars, histVars >>

\* Variant: the last-attempt test is off by one, so a fourth pass is made.
FetchRetryOffByOne(why) ==
    IF attempt < max_retries
    THEN /\ attempt' = attempt + 1
         /\ UNCHANGED << pc, exitStatus, failure >>
    ELSE /\ Abort(why)
         /\ UNCHANGED attempt

\* Variant: the attempt counter wraps around, so the loop never gives up.
FetchRetryForever(why) ==
    /\ attempt' = (attempt + 1) % max_retries
    /\ UNCHANGED << pc, exitStatus, failure >>

\* One pass of the loop of fetch_with_retry: the request succeeds and the
\* function returns, or it fails and the loop retries or exits.
FetchRetryOrExit(why) ==
    IF attempt < max_retries - 1
    THEN /\ attempt' = attempt + 1
         /\ UNCHANGED << pc, exitStatus, failure >>
    ELSE /\ Abort(why)
         /\ UNCHANGED attempt

FetchWatchlist ==
    /\ pc = "fetch_watchlist"
    /\ calls' = calls \cup { "fetch_watchlist" }
    /\ \/ \E data \in SeqsUpTo(RecordPool, MaxRecords) :
            /\ letterboxd_watchlist' = data
            /\ attempt' = 0
            /\ pc' = "fetch_watched"
            /\ UNCHANGED << exitStatus, failure >>
       \/ /\ FetchRetryOrExit("fetch_watchlist")
          /\ UNCHANGED letterboxd_watchlist
    /\ UNCHANGED << pureVars, env, plexWatchlist, current_watchlist_items,
                    letterboxd_watched, poolVars, syncVars, histVars >>

FetchWatched ==
    /\ pc = "fetch_watched"
    /\ calls' = calls \cup { "fetch_watched" }
    /\ \/ \E data \in SeqsUpTo(RecordPool, MaxWatched) :
            /\ letterboxd_watched' = data
            /\ attempt' = 0
            /\ pc' = "submit"
            /\ UNCHANGED << exitStatus, failure >>
       \/ /\ FetchRetryOrExit("fetch_watched")
          /\ UNCHANGED letterboxd_watched
    /\ UNCHANGED << pureVars, env, plexWatchlist, current_watchlist_items,
                    letterboxd_watchlist, poolVars, syncVars, histVars >>

(***************************************************************************)
(* process_watchlist_items: ThreadPoolExecutor(max_workers=4), one future  *)
(* per current item, results gathered by the main thread in as_completed   *)
(* order.                                                                  *)
(***************************************************************************)
NoResult == [action |-> "none", imdb_id |-> None, item |-> NoItem]

\* The future holds an exception instead of a result: reading the item's
\* guids or a record's "imdb_id" raised inside the worker.
Raised == [action |-> "raise", imdb_id |-> None, item |-> NoItem]

Pending == { k \in 1..Len(futures) : futures[k].state = "pending" }
Running == { k \in 1..Len(futures) : futures[k].state = "running" }
Finished == { k \in 1..Len(futures) : futures[k].state = "finished" }

\* executor.submit(...) for the next item of current_items; after the last
\* one the dict comprehension is complete and as_completed starts.
Submit ==
    /\ pc = "submit"
    /\ IF Len(futures) < Len(current_watchlist_items)
       THEN /\ futures' = Append(futures, [state |-> "pending",
                                            result |-> NoResult])
            /\ UNCHANGED pc
       ELSE /\ pc' = "collect"
            /\ UNCHANGED futures
    /\ UNCHANGED << pureVars, env, exitStatus, plexWatchlist, attempt, dataVars, yielded,
                    movies_to_remove, already_present, movies_to_add, syncVars,
                    failure, calls, histVars >>

\* Variant: a thread is started for every queued work item, whatever the
\* number of threads already running.
WorkerStartUnbounded ==
    /\ pc \in { "submit", "collect" }
    /\ \E k \in Pending :
         /\ \A j \in Pending : k <= j
         /\ futures' = [futures EXCEPT ![k].state = "running"]
    /\ UNCHANGED << pureVars, env, pc, exitStatus, plexWatchlist, attempt, dataVars,
                    yielded, movies_to_remove, already_present, movies_to_add,
                    syncVars, failure, calls, histVars >>

\* A free worker thread takes the oldest queued work item.
WorkerStart ==
    /\ pc \in { "submit", "collect" }
    /\ Cardinality(Running) < max_workers
    /\ \E k \in Pending :
         /\ \A j \in Pending : k <= j
         /\ futures' = [futures EXCEPT ![k].state = "running"]
    /\ UNCHANGED << pureVars, env, pc, exitStatus, plexWatchlist, attempt, dataVars,
                    yielded, movies_to_remove, already_present, movies_to_add,
                    syncVars, failure, calls, histVars >>

\* Variant: every task classifies the item submitted last (the loop variable
\* captured by reference instead of the item passed as argument).
WorkerFinishLateBinding ==
    /\ pc \in { "submit", "collect" }
    /\ \E k \in Running, raises \in BOOLEAN :
         futures' = [futures EXCEPT
             ![k] = [state |-> "finished",
                     result |-> IF raises THEN Raised
                                ELSE process_single_watchlist_item(
                                         current_watchlist_items[Len(futures)],
                                         letterboxd_watchlist,
                                         letterboxd_watched)]]
    /\ UNCHANGED << pureVars, env, pc, exitStatus, plexWatchlist, attempt, dataVars,
                    yielded, movies_to_remove, already_present, movies_to_add,
                    syncVars, failure, calls, histVars >>

\* The worker runs process_single_watchlist_item and sets the future's result,
\* or its exception.
WorkerFinish ==
    /\ pc \in { "submit", "collect" }
    /\ \E k \in Running, raises \in BOOLEAN :
         futures' = [futures EXCEPT
             ![k] = [state |-> "finished",
                     result |-> IF raises THEN Raised
                                ELSE process_single_watchlist_item(
                                         current_watchlist_items[k],
                                         letterboxd_watchlist,
                                         letterboxd_watched)]]
    /\ UNCHANGED << pureVars, env, pc, exitStatus, plexWatchlist, attempt, dataVars,
                    yielded, movies_to_remove, already_present, movies_to_add,
                    syncVars, failure, calls, histVars >>

\* Variant: the dict is keyed by item instead of by future, so the futures
\* of equal items collapse into one entry.
CollectByItem ==
    /\ pc = "collect"
    /\ \E k \in Finished \ yielded :
         LET r == futures[k].result IN
         /\ yielded' = yielded \cup
                { j \in 1..Len(futures) :
                    current_watchlist_items[j] = current_watchlist_items[k] }
         /\ movies_to_remove' =
                IF r.action = "remove" THEN Append(movies_to_remove, r.item)
                ELSE movies_to_remove
         /\ already_present' =
                IF r.action = "present" THEN Append(already_present, r.imdb_id)
                ELSE already_present
         /\ movies_to_add' =
                IF r.action = "add" THEN Append(movies_to_add, r.item)
                ELSE movies_to_add
         \* future.result() raises the worker's exception in main
         /\ IF r.action = "raise"
            THEN Abort("classify")
            ELSE UNCHANGED << pc, exitStatus, failure >>
    /\ UNCHANGED << pureVars, env, plexWatchlist, attempt, dataVars, futures,
                    syncVars, calls, histVars >>

\* Variant: future.result() sits in a try/except that skips a failed item.
CollectSwallowsRaise ==
    /\ pc = "collect"
    /\ \E k \in Finished \ yielded :
         LET r == futures[k].result IN
         /\ yielded' = yielded \cup { k }
         /\ movies_to_remove' =
                IF r.action = "remove" THEN Append(movies_to_remove, r.item)
                ELSE movies_to_remove
         /\ already_present' =
                IF r.action = "present" THEN Append(already_present, r.imdb_id)
                ELSE already_present
         /\ movies_to_add' =
                IF r.action = "add" THEN Append(movies_to_add, r.item)
                ELSE movies_to_add
    /\ UNCHANGED << pureVars, env, pc, exitStatus, failure, plexWatchlist,
                    attempt, dataVars, futures, syncVars, calls, histVars >>

\* One pass of `for future in as_completed(future_to_item)`: a finished
\* future that was not yielded before is yielded and its result is routed.
Collect ==
    /\ pc = "collect"
    /\ \E k \in Finished \ yielded :
         LET r == futures[k].result IN
         /\ yielded' = yielded \cup { k }
         /\ movies_to_remove' =
                IF r.action = "remove" THEN Append(movies_to_remove, r.item)
                ELSE movies_to_remove
         /\ already_present' =
                IF r.action = "present" THEN Append(already_present, r.imdb_id)
                ELSE already_present
         /\ movies_to_add' =
                IF r.action = "add" THEN Append(movies_to_add, r.item)
                ELSE movies_to_add
         \* future.result() raises the worker's exception in main
         /\ IF r.action = "raise"
            THEN Abort("classify")
            ELSE UNCHANGED << pc, exitStatus, failure >>
    /\ UNCHANGED << pureVars, env, plexWatchlist, attempt, dataVars, futures,
                    syncVars, calls, histVars >>

\* Variant: the return sits inside the for loop, so the buckets are returned
\* after the first future was handled.
ReturnBucketsEarly ==
    /\ pc = "collect"
    /\ yielded # { } \/ futures = << >>
    /\ pc' = "remove"
    /\ UNCHANGED << pureVars, env, exitStatus, plexWatchlist, attempt, dataVars, poolVars,
                    syncVars, failure, calls, histVars >>

\* as_completed is exhausted, the executor is shut down, the buckets are
\* returned to main.
ReturnBuckets ==
    /\ pc = "collect"
    /\ yielded = 1..Len(futures)
    /\ pc' = "remove"
    /\ UNCHANGED << pureVars, env, exitStatus, plexWatchlist, attempt, dataVars, poolVars,
                    syncVars, failure, calls, histVars >>

(***************************************************************************)
(* main: the bulk remove                                                   *)
(***************************************************************************)
InSeq(x, s) == \E j \in 1..Len(s) : s[j] = x

RECURSIVE Without(_, _)
\* The watchlist wl after the items of gone were taken off it.
Without(wl, gone) ==
    IF wl = << >> THEN << >>
    ELSE IF InSeq(Head(wl), gone) THEN Without(Tail(wl), gone)
    ELSE << Head(wl) >> \o Without(Tail(wl), gone)

\* Variant: the failure of the bulk remove is caught and main goes on.
RemoveWatchedContinues ==
    /\ pc = "remove"
    /\ IF movies_to_remove # << >>
       THEN /\ removed' = movies_to_remove
            /\ calls' = calls \cup { "remove" }
            /\ \/ /\ plexWatchlist' = Without(plexWatchlist, movies_to_remove)
                  /\ pc' = "sync"
                  /\ UNCHANGED << exitStatus, failure >>
               \/ /\ \E n \in 0..(Len(movies_to_remove) - 1) :
                        plexWatchlist' =
                            Without(plexWatchlist, SubSeq(movies_to_remove, 1, n))
                  /\ pc' = "sync"
                  /\ failure' = "remove"
                  /\ UNCHANGED exitStatus
       ELSE /\ pc' = "sync"
            /\ UNCHANGED << plexWatchlist, removed, calls, exitStatus,
                            failure >>
    /\ UNCHANGED << pureVars, env, attempt, dataVars, poolVars, syncVars, searched,
                    added, reported >>

\* account.removeFromWatchlist(movies_to_remove), called only for a
\* non-empty list.  A failing call may have taken off some of the items
\* before it raised.
RemoveWatched ==
    /\ pc = "remove"
    /\ IF movies_to_remove # << >>
       THEN /\ removed' = movies_to_remove
            /\ calls' = calls \cup { "remove" }
            /\ \/ /\ plexWatchlist' = Without(plexWatchlist, movies_to_remove)
                  /\ pc' = "sync"
                  /\ UNCHANGED << exitStatus, failure >>
               \/ /\ \E n \in 0..(Len(movies_to_remove) - 1) :
                        plexWatchlist' =
                            Without(plexWatchlist, SubSeq(movies_to_remove, 1, n))
                  /\ Abort("remove")
       ELSE /\ pc' = "sync"
            /\ UNCHANGED << plexWatchlist, removed, calls, exitStatus,
                            failure >>
    /\ UNCHANGED << pureVars, env, attempt, dataVars, poolVars, syncVars, searched,
                    added, reported >>

(***************************************************************************)
(* sync_watchlist                                                          *)
(***************************************************************************)
\* A guid of the candidate decodes to the wanted id (lines 139-141).
CandidateMatches(discover_result, wanted) ==
    \E g \in 1..Len(discover_result.guids) :
        LET imdb_id == get_imdb_id_from_guid(discover_result.guids[g])
        IN  Truthy(imdb_id) /\ imdb_id = wanted

\* Variant: the scan has no break and remembers the last matching candidate.
LastMatch(results, wanted) ==
    IF \E c \in 1..Len(results) : CandidateMatches(results[c], wanted)
    THEN CHOOSE c \in 1..Len(results) :
            /\ CandidateMatches(results[c], wanted)
            /\ \A b \in (c + 1)..Len(results) :
                  ~CandidateMatches(results[b], wanted)
    ELSE 0

\* Position of the candidate at which the scan of discover_results stops
\* with found = True; 0 when the scan ends with found = False.
FirstMatch(results, wanted) ==
    IF \E c \in 1..Len(results) : CandidateMatches(results[c], wanted)
    THEN CHOOSE c \in 1..Len(results) :
            /\ CandidateMatches(results[c], wanted)
            /\ \A b \in 1..(c - 1) : ~CandidateMatches(results[b], wanted)
    ELSE 0

\* Top of the loop body: skip a record already present, else call
\* account.searchDiscover(title).
SyncNext ==
    /\ pc = "sync"
    /\ idx <= Len(letterboxd_watchlist)
    /\ LET movie == letterboxd_watchlist[idx] IN
       IF InSeq(movie.imdb_id, already_present)
       THEN /\ idx' = idx + 1
            /\ UNCHANGED << pc, exitStatus, failure, discover_results,
                            searched, calls >>
       ELSE /\ searched' = Append(searched, idx)
            /\ calls' = calls \cup { "search" }
            /\ \/ \E res \in SeqsUpTo(CandidatePool, MaxCandidates) :
                    /\ discover_results' = res
                    /\ pc' = "scan"
                    /\ UNCHANGED << idx, exitStatus, failure >>
               \/ /\ Abort("search")
                  /\ UNCHANGED << idx, discover_results >>
    /\ UNCHANGED << pureVars, env, plexWatchlist, attempt, dataVars, poolVars,
                    unsynced_movies, removed, added, reported >>

\* Variant: the test `if not found` is missing, every scanned movie is
\* appended to unsynced_movies.
SyncScanAlwaysUnsynced ==
    /\ pc = "scan"
    /\ LET movie == letterboxd_watchlist[idx]
           c == FirstMatch(discover_results, movie.imdb_id)
       IN  /\ unsynced_movies' = Append(unsynced_movies, movie)
           /\ IF c # 0
              THEN /\ added' = Append(added, [rec |-> idx,
                                              cand |-> discover_results[c]])
                   /\ calls' = calls \cup { "add" }
                   /\ \/ /\ plexWatchlist' =
                                Append(plexWatchlist, discover_results[c])
                         /\ idx' = idx + 1
                         /\ discover_results' = << >>
                         /\ pc' = "sync"
                         /\ UNCHANGED << exitStatus, failure >>
                      \/ /\ Abort("add")
                         /\ UNCHANGED << plexWatchlist, idx, discover_results >>
              ELSE /\ idx' = idx + 1
                   /\ discover_results' = << >>
                   /\ pc' = "sync"
                   /\ UNCHANGED << plexWatchlist, added, calls, exitStatus,
                                   failure >>
    /\ UNCHANGED << pureVars, env, attempt, dataVars, poolVars, removed, searched,
                    reported >>

\* Rest of the loop body: scan the candidates, add the first one confirmed
\* by its id, or record the movie as unsynced.  discover_results is not read
\* again before the next search assigns it, so the model empties it here.
SyncScan ==
    /\ pc = "scan"
    /\ LET movie == letterboxd_watchlist[idx]
           c == FirstMatch(discover_results, movie.imdb_id)
       IN  IF c # 0
           THEN /\ added' = Append(added, [rec |-> idx,
                                           cand |-> discover_results[c]])
                /\ calls' = calls \cup { "add" }
                /\ \/ /\ plexWatchlist' =
                             Append(plexWatchlist, discover_results[c])
                      /\ idx' = idx + 1
                      /\ discover_results' = << >>
                      /\ pc' = "sync"
                      /\ UNCHANGED << exitStatus, failure >>
                   \/ /\ Abort("add")
                      /\ UNCHANGED << plexWatchlist, idx, discover_results >>
                /\ UNCHANGED unsynced_movies
           ELSE /\ unsynced_movies' = Append(unsynced_movies, movie)
                /\ idx' = idx + 1
                /\ discover_results' = << >>
                /\ pc' = "sync"
                /\ UNCHANGED << plexWatchlist, added, calls, exitStatus,
                                failure >>
    /\ UNCHANGED << pureVars, env, attempt, dataVars, poolVars, removed, searched,
                    reported >>

\* The loop is exhausted: return unsynced_movies.
SyncReturn ==
    /\ pc = "sync"
    /\ idx > Len(letterboxd_watchlist)
    /\ pc' = "report"
    /\ UNCHANGED << pureVars, env, exitStatus, plexWatchlist, attempt, dataVars, poolVars,
                    syncVars, failure, calls, histVars >>

(***************************************************************************)
(* main: the report                                                        *)
(***************************************************************************)
ReportLine(movie) == [title |-> movie.title, imdb_id |-> movie.imdb_id]

\* Variant: a non-empty unsynced list is treated as a failed run.
ReportFailsOnUnsynced ==
    /\ pc = "report"
    /\ reported' = [j \in 1..Len(unsynced_movies) |->
                        ReportLine(unsynced_movies[j])]
    /\ pc' = "done"
    /\ exitStatus' = IF unsynced_movies # << >> THEN 1 ELSE 0
    /\ UNCHANGED << pureVars, env, plexWatchlist, attempt, dataVars, poolVars, syncVars,
                    failure, calls, removed, searched, added >>

Report ==
    /\ pc = "report"
    /\ reported' = [j \in 1..Len(unsynced_movies) |->
                        ReportLine(unsynced_movies[j])]
    /\ pc' = "done"
    /\ exitStatus' = 0
    /\ UNCHANGED << pureVars, env, plexWatchlist, attempt, dataVars, poolVars, syncVars,
                    failure, calls, removed, searched, added >>

Next ==
    \/ GetEnvironmentVariables
    \/ ConnectAccount
    \/ GetCurrentWatchlist
    \/ FetchWatchlist
    \/ FetchWatched
    \/ Submit
    \/ WorkerStart
    \/ WorkerFinish
    \/ Collect
    \/ ReturnBuckets
    \/ RemoveWatched
    \/ SyncNext
    \/ SyncScan
    \/ SyncReturn
    \/ Report

Spec == Init /\ [][Next]_vars

(***************************************************************************)
(* The two pure functions on their own: get_imdb_id_from_guid applied to   *)
(* every guid of one item, then process_single_watchlist_item applied to   *)
(* the item and two reference lists.  The guid strings are all the texts   *)
(* up to MaxGuidLen tokens, so malformed ones are among them.              *)
(***************************************************************************)
MaxGuidLen == 5      \* longest guid text, in tokens
MaxGuids == 2        \* most guids of one item taken from GuidPool

Tokens == { "imdb", "://", "tt1", ">", "<extra" }

guidM == << "<Guid:", "tmdb", "://", "456", ">" >>
GuidPool == { guidA, guidT, guidM }

GuidLists ==
    { << g >> : g \in SeqsUpTo(Tokens, MaxGuidLen) }
        \cup SeqsUpTo(GuidPool, MaxGuids)

RefLists == { << >> } \cup { << r >> : r \in RecordPool }

progVars == << env, pc, exitStatus, plexWatchlist, current_watchlist_items,
               letterboxd_watchlist, letterboxd_watched, attempt, futures,
               yielded, movies_to_remove, already_present, movies_to_add, idx,
               discover_results, unsynced_movies, failure, calls, removed,
               searched, added, reported >>

InitPure ==
    /\ env = [v \in VarNames |-> "set"]
    /\ pc = "pure"
    /\ exitStatus = -1
    /\ plexWatchlist = << >>
    /\ current_watchlist_items = << >>
    /\ letterboxd_watchlist = << >>
    /\ letterboxd_watched = << >>
    /\ attempt = 0
    /\ futures = << >>
    /\ yielded = { }
    /\ movies_to_remove = << >>
    /\ already_present = << >>
    /\ movies_to_add = << >>
    /\ idx = 1
    /\ discover_results = << >>
    /\ unsynced_movies = << >>
    /\ failure = "none"
    /\ calls = { }
    /\ removed = << >>
    /\ searched = << >>
    /\ added = << >>
    /\ reported = << >>
    /\ \E gs \in GuidLists, d \in RefLists, w \in RefLists :
          pure_in = [item |-> [title |-> "A", guids |-> gs],
                     desired |-> d, watched |-> w]
    /\ pure_out = NoOutput

\* get_imdb_id_from_guid(guid) for every guid of the item; a second call
\* on the same item computes the list again.
Extract ==
    /\ pc = "pure"
    /\ pure_out.stage \in { "none", "extracted" }
    /\ pure_out' =
          [pure_out EXCEPT
              !.stage = "extracted",
              !.ids = [g \in 1..Len(pure_in.item.guids) |->
                          get_imdb_id_from_guid(pure_in.item.guids[g])]]
    /\ UNCHANGED << pure_in, progVars >>

\* process_single_watchlist_item(item, desired, watched)
ClassifyItem ==
    /\ pc = "pure"
    /\ pure_out.stage = "extracted"
    /\ pure_out' =
          [pure_out EXCEPT
              !.stage = "classified",
              !.outcome = process_single_watchlist_item(
                              pure_in.item, pure_in.desired, pure_in.watched)]
    /\ UNCHANGED << pure_in, progVars >>

NextPure ==
    \/ Extract
    \/ ClassifyItem

SpecPure == InitPure /\ [][NextPure]_vars

(***************************************************************************)
(* process_watchlist_items on its own, entered with more current items     *)
(* than the pool has workers.                                              *)
(***************************************************************************)
PoolItems == 6       \* current items handed to process_watchlist_items

InitPool ==
    /\ env = [v \in VarNames |-> "set"]
    /\ pc = "submit"
    /\ exitStatus = -1
    /\ plexWatchlist = [k \in 1..PoolItems |->
                            [title |-> "A", guids |-> << guidA >>]]
    /\ current_watchlist_items = plexWatchlist
    /\ letterboxd_watchlist = << >>
    /\ letterboxd_watched \in RefLists
    /\ attempt = 0
    /\ futures = << >>
    /\ yielded = { }
    /\ movies_to_remove = << >>
    /\ already_present = << >>
    /\ movies_to_add = << >>
    /\ idx = 1
    /\ discover_results = << >>
    /\ unsynced_movies = << >>
    /\ failure = "none"
    /\ calls = { "connect", "watchlist", "fetch_watchlist", "fetch_watched" }
    /\ removed = << >>
    /\ searched = << >>
    /\ added = << >>
    /\ reported = << >>
    /\ pure_in = NoInput
    /\ pure_out = NoOutput

NextPool ==
    \/ Submit
    \/ WorkerStart
    \/ WorkerFinish
    \/ Collect
    \/ ReturnBuckets

SpecPool == InitPool /\ [][NextPool]_vars

(***************************************************************************)
(* One run with its settings present and two items on the Plex watchlist,  *)
(* under the assumption that every collaborator call returns or raises and *)
(* that the main thread and the workers keep being scheduled.              *)
(***************************************************************************)
LiveWatchlist ==
    << [title |-> "A", guids |-> << guidA >>],
       [title |-> "T", guids |-> << guidT >> ] >>

InitLive ==
    /\ Init
    /\ env = [v \in VarNames |-> "set"]
    /\ plexWatchlist = LiveWatchlist

SpecLive == InitLive /\ [][Next]_vars /\ WF_vars(Next)

(***************************************************************************)
(* Notions shared by the properties.                                       *)
(***************************************************************************)
\* The external ids an item carries: what its guids decode to.
ItemIds(item) ==
    { get_imdb_id_from_guid(item.guids[g]) : g \in 1..Len(item.guids) }
        \ { None, << >> }

RecordIds(records) == { records[j].imdb_id : j \in 1..Len(records) }

\* process_watchlist_items has returned its buckets to main.
Classified ==
    \/ pc \in { "remove", "sync", "scan", "report", "done" }
    \/ pc = "exit" /\ failure \in { "remove", "search", "add" }

\* sync_watchlist has returned to main.
Converged == pc \in { "report", "done" }

\* The outcome the classifier computes for the k-th current item.
Outcome(k) ==
    process_single_watchlist_item(current_watchlist_items[k],
                                  letterboxd_watchlist, letterboxd_watched)

(***************************************************************************)
(* C1.  When a run of main completes, no item on the target watchlist      *)
(* carries the id of a watched record: such items were removed and the     *)
(* convergence phase did not add them back, also when the id is desired.   *)
(***************************************************************************)
C1_NoWatchedItemAtEnd ==
    pc = "done" =>
        \A j \in 1..Len(plexWatchlist) :
            ItemIds(plexWatchlist[j]) \cap RecordIds(letterboxd_watched) = { }

(***************************************************************************)
(* C2.  An item with an identifier that decodes to an id present in both   *)
(* the desired and the watched set is classified "remove", whatever other  *)
(* identifiers it carries and in whatever order.                           *)
(***************************************************************************)
C2_WatchedAlwaysWins ==
    \A k \in Finished :
        (\E id \in ItemIds(current_watchlist_items[k]) :
            /\ id \in RecordIds(letterboxd_watchlist)
            /\ id \in RecordIds(letterboxd_watched))
        => futures[k].result.action = "remove"

(***************************************************************************)
(* C3.  A failing catalog search or add during convergence does not abort  *)
(* the run: the record becomes unsynced and the later records are still    *)
(* processed.                                                              *)
(***************************************************************************)
C3_SyncFailureIsRecovered ==
    failure \in { "search", "add" } =>
        /\ pc # "exit"
        /\ exitStatus # 1
        /\ Converged =>
              \A j \in 1..Len(letterboxd_watchlist) :
                  InSeq(letterboxd_watchlist[j].imdb_id, already_present)
                      \/ InSeq(j, searched)

(***************************************************************************)
(* C4.  If the bulk remove fails the run ends with a failure status before *)
(* convergence: no search, no add and no unsynced report follow.           *)
(***************************************************************************)
C4_FailedRemoveAborts ==
    failure = "remove" =>
        /\ pc = "exit"
        /\ exitStatus = 1
        /\ calls \cap { "search", "add" } = { }
        /\ searched = << >>
        /\ added = << >>
        /\ unsynced_movies = << >>
        /\ reported = << >>

\* A failed remove with a desired record that convergence would have searched.
C4_Witness ==
    /\ failure = "remove"
    /\ removed # << >>
    /\ \E j \in 1..Len(letterboxd_watchlist) :
           ~InSeq(letterboxd_watchlist[j].imdb_id, already_present)

(***************************************************************************)
(* C5.  When sync_watchlist returns, the desired entries it added and the  *)
(* ones it returns as unsynced are disjoint and together are exactly the   *)
(* entries whose id is not in already_present; an entry whose id is in     *)
(* already_present is not searched for, added or reported unsynced.        *)
(* Entries are positions of the desired list.                              *)
(***************************************************************************)
NotPresent ==
    { j \in 1..Len(letterboxd_watchlist) :
        ~InSeq(letterboxd_watchlist[j].imdb_id, already_present) }

AddedEntries == { added[a].rec : a \in 1..Len(added) }

RECURSIVE EntriesAt(_, _)
\* The desired entries at the positions of P from position j on, in order.
EntriesAt(P, j) ==
    IF j > Len(letterboxd_watchlist) THEN << >>
    ELSE IF j \in P THEN << letterboxd_watchlist[j] >> \o EntriesAt(P, j + 1)
    ELSE EntriesAt(P, j + 1)

C5_AddedUnsyncedPartition ==
    Converged =>
        /\ AddedEntries \subseteq NotPresent
        /\ Len(added) = Cardinality(AddedEntries)
        /\ unsynced_movies = EntriesAt(NotPresent \ AddedEntries, 1)
        /\ { searched[a] : a \in 1..Len(searched) } = NotPresent
        /\ Len(searched) = Cardinality(NotPresent)

\* A return after one entry was added and another one was left unsynced.
C5_Witness ==
    /\ Converged
    /\ added # << >>
    /\ unsynced_movies # << >>

(***************************************************************************)
(* C6.  When process_watchlist_items returns, the sizes of the three       *)
(* buckets sum to the number of current items, repeated items included.    *)
(***************************************************************************)
BucketTotal ==
    Len(movies_to_remove) + Len(already_present) + Len(movies_to_add)

C6_BucketsComplete ==
    /\ Classified => BucketTotal = Len(current_watchlist_items)
    /\ pc = "collect" => BucketTotal = Cardinality(yielded)

\* A return for a list that holds the same item twice.
C6_Witness ==
    /\ pc = "remove"
    /\ Len(current_watchlist_items) = 2
    /\ current_watchlist_items[1] = current_watchlist_items[2]

(***************************************************************************)
(* C7.  Under every interleaving of the workers and every completion order *)
(* each outcome lands in the bucket that (item, desired, watched)          *)
(* determines: none is lost, duplicated or misrouted, so every             *)
(* reconciliation of one snapshot yields the same members per bucket.      *)
(***************************************************************************)
\* How often x occurs in the sequence s.
Count(x, s) == Cardinality({ j \in 1..Len(s) : s[j] = x })

\* How many current items the classifier gives the action with this entry.
Expected(action, entry) ==
    Cardinality({ k \in 1..Len(current_watchlist_items) :
        /\ Outcome(k).action = action
        /\ entry = IF action = "present" THEN Outcome(k).imdb_id
                   ELSE Outcome(k).item })

\* The bucket holds exactly the entries that the outcomes with this action
\* give, each as often as it is given.
BucketIs(bucket, action) ==
    /\ Len(bucket) =
          Cardinality({ k \in 1..Len(current_watchlist_items) :
                          Outcome(k).action = action })
    /\ \A j \in 1..Len(bucket) :
          Count(bucket[j], bucket) = Expected(action, bucket[j])

\* pc = "remove" is the state in which process_watchlist_items returns.
C7_BucketsDetermined ==
    pc = "remove" =>
        /\ BucketIs(movies_to_remove, "remove")
        /\ BucketIs(already_present, "present")
        /\ BucketIs(movies_to_add, "add")

\* A return where two different items went to two different buckets.
C7_Witness ==
    /\ pc = "remove"
    /\ Len(current_watchlist_items) = 2
    /\ current_watchlist_items[1] # current_watchlist_items[2]
    /\ movies_to_remove # << >>
    /\ already_present # << >>

(***************************************************************************)
(* C8.  Every item passed to the bulk remove is a current item with an     *)
(* identifier that decodes to the id of a watched record; an item          *)
(* classified "present" or "add" is never removed by the run.              *)
(***************************************************************************)
C8_OnlyWatchedRemoved ==
    \* what main holds when the classification returns: only current items
    \* with a watched id, none that was classified "present" or "add"
    /\ pc = "remove" =>
          /\ \A j \in 1..Len(movies_to_remove) :
                /\ InSeq(movies_to_remove[j], current_watchlist_items)
                /\ ItemIds(movies_to_remove[j])
                       \cap RecordIds(letterboxd_watched) # { }
          /\ \A k \in 1..Len(current_watchlist_items) :
                Outcome(k).action \in { "present", "add" } =>
                    ~InSeq(current_watchlist_items[k], movies_to_remove)
    \* the bulk remove is passed that list and nothing else
    /\ removed \in { << >>, movies_to_remove }
    \* and every other current item stays on the target watchlist
    /\ Classified =>
          \A k \in 1..Len(current_watchlist_items) :
              InSeq(current_watchlist_items[k], movies_to_remove)
                  \/ InSeq(current_watchlist_items[k], plexWatchlist)

\* A bulk remove was issued while another current item was present.
C8_Witness ==
    /\ pc = "sync"
    /\ removed # << >>
    /\ \E k \in 1..Len(current_watchlist_items) : Outcome(k).action = "present"

(***************************************************************************)
(* C9.  A run passes through Init, Fetching, Classifying, Removing,        *)
(* Converging, Reporting, Done in this order, never backwards and never    *)
(* twice through a phase: the reads of the current watchlist and of the    *)
(* remote lists precede classification, all items are classified before    *)
(* the bulk remove, the bulk remove precedes every search and add, and the *)
(* report follows the last search and add.  A fatal exit may end the run   *)
(* in any phase.                                                           *)
(***************************************************************************)
PhaseOf(p) ==
    CASE p = "start" -> 0
      [] p \in { "connect", "watchlist", "fetch_watchlist", "fetch_watched" } -> 1
      [] p \in { "submit", "collect" } -> 2
      [] p = "remove" -> 3
      [] p \in { "sync", "scan" } -> 4
      [] p = "report" -> 5
      [] p = "done" -> 6
      [] OTHER -> 7

C9_PhaseStep ==
    \* one phase after the other, or the fatal exit
    /\ \/ PhaseOf(pc') = PhaseOf(pc)
       \/ PhaseOf(pc') = PhaseOf(pc) + 1
       \/ pc' = "exit"
    \* the lists are read while fetching, before the first task is submitted
    /\ dataVars' # dataVars => PhaseOf(pc) = 1 /\ futures = << >>
    \* tasks run and are gathered while classifying
    /\ << futures, yielded, movies_to_remove, already_present,
          movies_to_add >>' # poolVars => PhaseOf(pc) = 2
    \* the bulk remove is issued once, after every item was classified
    /\ removed' # removed =>
          /\ PhaseOf(pc) = 3
          /\ yielded = 1..Len(current_watchlist_items)
          /\ removed = << >>
    \* searches and adds happen while converging, after the bulk remove
    /\ (searched' # searched \/ added' # added) =>
          /\ PhaseOf(pc) = 4
          /\ removed = movies_to_remove
    \* the report is written after the last search and add
    /\ reported' # reported =>
          /\ PhaseOf(pc) = 5
          /\ idx > Len(letterboxd_watchlist)
    /\ PhaseOf(pc) >= 5 => searched' = searched /\ added' = added

C9_PhasesInOrder == [][C9_PhaseStep]_vars

\* A complete run in which every phase had work to do.
C9_Witness ==
    /\ pc = "done"
    /\ removed # << >>
    /\ added # << >>
    /\ reported # << >>

(***************************************************************************)
(* C10.  If a required setting is missing or empty the run ends with a     *)
(* nonzero exit status before any remote call: no account connection, no   *)
(* watchlist read, no list fetch, no remove, search or add.                *)
(***************************************************************************)
SettingMissing ==
    \E v \in { "PLEX_TOKEN", "PLEX_URL", "LETTERBOXD_USERNAME" } :
        env[v] \in { "unset", "empty" }

C10_ConfigErrorBeforeCalls ==
    SettingMissing =>
        /\ calls = { }
        /\ pc \in { "start", "exit" }
        /\ pc = "exit" => exitStatus = 1 /\ failure = "config"
        /\ removed = << >> /\ searched = << >> /\ added = << >>

\* The run has exited because only PLEX_URL, which it never uses, is empty.
C10_Witness ==
    /\ pc = "exit"
    /\ failure = "config"
    /\ env["PLEX_URL"] = "empty"
    /\ env["PLEX_TOKEN"] = "set"
    /\ env["LETTERBOXD_USERNAME"] = "set"

(***************************************************************************)
(* C11.  A desired record that is not already present and whose search     *)
(* returns no candidate with its id lands in unsynced; this is not fatal:  *)
(* the run goes on, ends with exit status 0 and reports every unsynced     *)
(* record with its title and external id.                                  *)
(***************************************************************************)
\* No candidate of the search result carries the id of the record at idx.
NoCandidateConfirmed ==
    \A c \in 1..Len(discover_results) :
        letterboxd_watchlist[idx].imdb_id \notin ItemIds(discover_results[c])

C11_Step ==
    /\ (pc = "scan" /\ NoCandidateConfirmed) =>
          /\ unsynced_movies' =
                Append(unsynced_movies, letterboxd_watchlist[idx])
          /\ pc' = "sync"
          /\ exitStatus' = exitStatus
          /\ failure' = failure
    /\ unsynced_movies' # unsynced_movies =>
          pc = "scan" /\ NoCandidateConfirmed

C11_AtEnd ==
    pc = "done" =>
        /\ exitStatus = 0
        /\ failure = "none"
        /\ Len(reported) = Len(unsynced_movies)
        /\ \A j \in 1..Len(reported) :
              /\ reported[j].title = unsynced_movies[j].title
              /\ reported[j].imdb_id = unsynced_movies[j].imdb_id

C11_UnsyncedIsReported == [][C11_Step]_vars /\ []C11_AtEnd

\* A completed run whose report lists a record left unsynced.
C11_Witness ==
    /\ pc = "done"
    /\ exitStatus = 0
    /\ unsynced_movies # << >>
    /\ Len(reported) = Len(unsynced_movies)

(***************************************************************************)
(* C18.  fetch_with_retry makes at most max_retries requests for one URL,  *)
(* returns on the first success without further attempts, and after        *)
(* max_retries failures ends the process with a nonzero status: the run    *)
(* stops before classification, no remove, search or add is issued, and    *)
(* after a fatal watchlist fetch the watched-films fetch is never made.    *)
(***************************************************************************)
Fetching == pc \in { "fetch_watchlist", "fetch_watched" }

\* attempt is the number of failed requests made so far for the current URL.
C18_Step ==
    Fetching =>
        \/ /\ pc' = pc                       \* failed, one more request
           /\ attempt' = attempt + 1
           /\ attempt' < max_retries
        \/ /\ pc' \notin { pc, "exit" }      \* succeeded, function returns
           /\ attempt' = 0
           /\ pc' = IF pc = "fetch_watchlist" THEN "fetch_watched"
                                              ELSE "submit"
        \/ /\ pc' = "exit"                   \* failed for the last time
           /\ attempt + 1 = max_retries
           /\ exitStatus' # 0
           /\ failure' = pc

C18_State ==
    /\ attempt + 1 <= max_retries
    /\ failure \in { "fetch_watchlist", "fetch_watched" } =>
          /\ pc = "exit"
          /\ exitStatus = 1
          /\ futures = << >>
          /\ calls \cap { "remove", "search", "add" } = { }
          /\ removed = << >> /\ searched = << >> /\ added = << >>
    /\ failure = "fetch_watchlist" => "fetch_watched" \notin calls

C18_BoundedRetry == [][C18_Step]_vars /\ []C18_State

\* The watched-films fetch was given up after its third failed request.
C18_Witness ==
    /\ pc = "exit"
    /\ failure = "fetch_watched"
    /\ attempt = max_retries - 1
    /\ letterboxd_watchlist # << >>

(***************************************************************************)
(* C19.  Within one run the add operation is issued at most once per       *)
(* external id: duplicate desired records are searched and added once.     *)
(***************************************************************************)
C19_AddOncePerId ==
    /\ \A i, j \in 1..Len(added) :
          i # j => letterboxd_watchlist[added[i].rec].imdb_id
                       # letterboxd_watchlist[added[j].rec].imdb_id
    /\ \A i, j \in 1..Len(searched) :
          i # j => letterboxd_watchlist[searched[i]].imdb_id
                       # letterboxd_watchlist[searched[j]].imdb_id

(***************************************************************************)
(* C15.  For each desired record sync_watchlist issues at most one add,    *)
(* for the first candidate in search order with an identifier decoding to  *)
(* the record's id; the scan of that record ends there, and no candidate   *)
(* is added without an identifier equal to the record's id, whatever its   *)
(* title.                                                                  *)
(***************************************************************************)
C15_Step ==
    added' # added =>
        /\ pc = "scan"
        /\ Len(added') = Len(added) + 1
        /\ LET e == added'[Len(added')]
               wanted == letterboxd_watchlist[idx].imdb_id
           IN  /\ e.rec = idx
               /\ \E c \in 1..Len(discover_results) :
                     /\ e.cand = discover_results[c]
                     /\ wanted \in ItemIds(discover_results[c])
                     /\ \A b \in 1..(c - 1) :
                           wanted \notin ItemIds(discover_results[b])
               /\ \/ pc' = "exit"
                  \/ /\ plexWatchlist' = Append(plexWatchlist, e.cand)
                     /\ idx' = idx + 1
                     /\ pc' = "sync"

C15_State ==
    /\ \A i, j \in 1..Len(added) : i # j => added[i].rec # added[j].rec
    /\ \A i \in 1..Len(added) :
          letterboxd_watchlist[added[i].rec].imdb_id \in ItemIds(added[i].cand)

C15_FirstMatchOnly == [][C15_Step]_vars /\ []C15_State

\* The add was issued for the first of two different candidates that both
\* carry the record's id, and its title is not the record's title.
C15_Witness ==
    /\ pc = "exit"
    /\ failure = "add"
    /\ Len(discover_results) = 2
    /\ discover_results[1] # discover_results[2]
    /\ \A c \in 1..2 :
          letterboxd_watchlist[idx].imdb_id \in ItemIds(discover_results[c])
    /\ added[Len(added)].cand = discover_results[1]
    /\ added[Len(added)].cand.title # letterboxd_watchlist[idx].title

(***************************************************************************)
(* C16.  If the classification of an item raises inside a worker, the      *)
(* failure reaches main and the run aborts: the buckets are never returned *)
(* with that item missing, and no bulk remove, search or add is issued     *)
(* afterwards.                                                             *)
(***************************************************************************)
SomeRaised ==
    \E k \in 1..Len(futures) : futures[k].result.action = "raise"

C16_Step ==
    \A k \in 1..Len(futures) :
        (k \in yielded' \ yielded /\ futures[k].result.action = "raise") =>
            /\ pc' = "exit"
            /\ exitStatus' = 1
            /\ failure' = "classify"

C16_State ==
    /\ Classified => ~SomeRaised
    /\ failure = "classify" =>
          /\ pc = "exit"
          /\ exitStatus = 1
          /\ SomeRaised
          /\ calls \cap { "remove", "search", "add" } = { }
          /\ removed = << >> /\ searched = << >> /\ added = << >>
    /\ SomeRaised =>
          /\ pc \in { "submit", "collect", "exit" }
          /\ removed = << >> /\ searched = << >> /\ added = << >>

C16_RaisePropagates == [][C16_Step]_vars /\ []C16_State

\* The run was aborted by the failure of one item after another item had
\* been classified and collected.
C16_Witness ==
    /\ failure = "classify"
    /\ Len(futures) = 2
    /\ \E k \in yielded : futures[k].result.action \in { "remove", "present", "add" }
    /\ \E k \in yielded : futures[k].result.action = "raise"

(***************************************************************************)
(* C12 as stated.  get_imdb_id_from_guid is a pure function of its input,  *)
(* and for every string that does not begin with 'imdb://', including one  *)
(* that contains 'imdb://' after the start, it returns nothing.            *)
(***************************************************************************)
HasPrefix(guid) == Len(guid) >= 2 /\ guid[1] = "imdb" /\ guid[2] = "://"

HasMarker(guid) ==
    \E i \in 1..(Len(guid) - 1) : guid[i] = "imdb" /\ guid[i + 1] = "://"

C12_NoPrefixNoId ==
    pure_out.stage # "none" =>
        \A g \in 1..Len(pure_in.item.guids) :
            ~HasPrefix(pure_in.item.guids[g]) => pure_out.ids[g] = None

(***************************************************************************)
(* C12, amended.  get_imdb_id_from_guid is a function of its input string  *)
(* alone (a second call returns the same value), and for every string that *)
(* does not contain 'imdb://' anywhere it returns nothing; a string that   *)
(* contains 'imdb://' after its start is decoded.                          *)
(***************************************************************************)
C12_Step ==
    pure_out.stage = "extracted" /\ pure_out'.stage = "extracted" =>
        pure_out'.ids = pure_out.ids

C12_State ==
    pure_out.stage # "none" =>
        /\ Len(pure_out.ids) = Len(pure_in.item.guids)
        /\ \A g \in 1..Len(pure_in.item.guids) :
              /\ ~HasMarker(pure_in.item.guids[g]) => pure_out.ids[g] = None
              /\ HasMarker(pure_in.item.guids[g]) => pure_out.ids[g] # None

C12_NoMarkerNoId == [][C12_Step]_vars /\ []C12_State

\* A guid of another namespace and a malformed text were both decoded to
\* nothing.
C12_Witness ==
    /\ pure_out.stage = "extracted"
    /\ \/ pure_in.item.guids = << guidT, guidM >>
       \/ pure_in.item.guids = << << "://", "tt1", ">" >> >>
    /\ \A g \in 1..Len(pure_out.ids) : pure_out.ids[g] = None

(***************************************************************************)
(* C13 as stated.  For 'imdb://<value><noise>' get_imdb_id_from_guid       *)
(* returns exactly <value>, everything from the first non-value delimiter  *)
(* on being stripped, so that an item with 'imdb://tt1<extra>' and a       *)
(* watched list holding tt1 is classified "remove".                        *)
(***************************************************************************)
Values == { "tt1" }

\* guid is imdb://<value> followed by noise whose first token is in first
\* (or by nothing).
ValueThenNoise(guid, first) ==
    /\ Len(guid) >= 3
    /\ HasPrefix(guid)
    /\ guid[3] \in Values
    /\ Len(guid) >= 4 => guid[4] \in first

WatchedHolds(guid) ==
    \E j \in 1..Len(pure_in.watched) :
        pure_in.watched[j].imdb_id = << guid[3] >>

DecodedAndRemoved(first) ==
    \A g \in 1..Len(pure_in.item.guids) :
        LET guid == pure_in.item.guids[g] IN
        ValueThenNoise(guid, first) =>
            /\ pure_out.stage # "none" => pure_out.ids[g] = << guid[3] >>
            /\ (pure_out.stage = "classified" /\ g = 1 /\ WatchedHolds(guid)) =>
                  /\ pure_out.outcome.action = "remove"
                  /\ pure_out.outcome.item = pure_in.item

C13_AnyNoiseStripped == DecodedAndRemoved({ ">", "://", "<extra" })

(***************************************************************************)
(* C13, amended.  For 'imdb://<value><noise>' where the noise begins with  *)
(* '>' or with '://' get_imdb_id_from_guid returns exactly <value>, and an *)
(* item with such an identifier first and a watched list holding <value>   *)
(* is classified "remove"; noise that begins with any other character is   *)
(* kept up to the next '>' as part of the returned id.                     *)
(***************************************************************************)
C13_ClosingBracketStripped ==
    /\ DecodedAndRemoved({ ">", "://" })
    /\ pure_out.stage # "none" =>
          \A g \in 1..Len(pure_in.item.guids) :
              LET guid == pure_in.item.guids[g] IN
              ValueThenNoise(guid, { "<extra" }) /\ Len(guid) >= 4 =>
                  /\ Len(pure_out.ids[g]) >= 2
                  /\ pure_out.ids[g][1] = guid[3]
                  /\ pure_out.ids[g][2] = "<extra"

\* The item with 'imdb://tt1>' followed by more text was classified
\* "remove" against a watched list holding tt1.
C13_Witness ==
    /\ pure_out.stage = "classified"
    /\ pure_in.item.guids = << << "imdb", "://", "tt1", ">", "<extra" >> >>
    /\ pure_in.watched = << [title |-> "A", imdb_id |-> << "tt1" >>] >>
    /\ pure_out.ids = << << "tt1" >> >>
    /\ pure_out.outcome.action = "remove"

(***************************************************************************)
(* C14.  Whatever the desired and watched lists, an item none of whose     *)
(* guids decodes to an external id (no guids at all, or guids of other     *)
(* namespaces only) is classified "add", never "remove" or "present".      *)
(***************************************************************************)
NothingDecodes ==
    \A g \in 1..Len(pure_in.item.guids) :
        \/ ~HasMarker(pure_in.item.guids[g])
        \/ pure_out.ids[g] = << >>

C14_UndecodableIsAdd ==
    (pure_out.stage = "classified" /\ NothingDecodes) =>
        /\ pure_out.outcome.action = "add"
        /\ pure_out.outcome.item = pure_in.item
        /\ pure_out.outcome.imdb_id = None

\* Two guids of other namespaces, both reference lists non-empty.
C14_Witness ==
    /\ pure_out.stage = "classified"
    /\ pure_in.item.guids = << guidT, guidM >>
    /\ pure_in.desired # << >>
    /\ pure_in.watched # << >>
    /\ pure_out.outcome.action = "add"

(***************************************************************************)
(* C17.  During the classification at most max_workers (4) tasks execute   *)
(* at the same time, however many items were submitted; the other          *)
(* submitted tasks stay queued until a worker is free.                     *)
(***************************************************************************)
C17_Step ==
    \A k \in 1..Len(futures) :
        (futures[k].state = "pending" /\ futures'[k].state # "pending") =>
            /\ futures'[k].state = "running"
            /\ Cardinality(Running) < max_workers

C17_State ==
    /\ Cardinality(Running) <= max_workers
    /\ \A k \in Pending : futures[k].result = NoResult /\ k \notin yielded

C17_BoundedParallelism == [][C17_Step]_vars /\ []C17_State

\* All four workers are busy while submitted tasks are still queued.
C17_Witness ==
    /\ Cardinality(Running) = max_workers
    /\ Cardinality(Pending) >= 2
    /\ Len(futures) > max_workers + 1

(***************************************************************************)
(* C20.  Every run of main eventually terminates, at Done or with a fatal  *)
(* exit, provided each collaborator call returns or raises: the retry loop *)
(* is bounded, every submitted task completes and is collected exactly     *)
(* once, and the convergence loop visits each desired record once.         *)
(***************************************************************************)
Terminated == pc \in { "done", "exit" }

C20_Step ==
    /\ yielded' # yielded =>
          \E k \in 1..Len(futures) :
              /\ k \notin yielded
              /\ futures[k].state = "finished"
              /\ yielded' = yielded \cup { k }
    /\ idx' \in { idx, idx + 1 }
    /\ Terminated => UNCHANGED vars

C20_State ==
    /\ attempt < max_retries
    /\ (Classified /\ pc # "exit") =>
          /\ Len(futures) = Len(current_watchlist_items)
          /\ yielded = 1..Len(futures)
    /\ Converged => idx = Len(letterboxd_watchlist) + 1
    /\ \A i, j \in 1..Len(searched) : i # j => searched[i] # searched[j]

C20_Terminates == <>Terminated /\ [][C20_Step]_vars /\ []C20_State

\* The run went through every phase: both tasks were collected, a record
\* was searched, and main returned.
C20_Witness ==
    /\ pc = "done"
    /\ yielded = { 1, 2 }
    /\ searched # << >>
    /\ idx = Len(letterboxd_watchlist) + 1

====
